---- MODULE Spec2Model ----
(***************************************************************************)
(* The four PandasAI demo scripts (DFInList.py, MultiDF.py,                *)
(* MultiDFTestExcel.py, MultiDfExcelSingleTest.py) as one state machine.   *)
(* A script is a straight-line list of module-level statements; the        *)
(* interpreter executes them one after the other, and an exception that    *)
(* no statement catches ends the process.  The collaborators outside the   *)
(* repository (the spreadsheet files, the LLM client library, the remote   *)
(* model) are an environment fixed when the behaviour starts: their        *)
(* outcomes are drawn nondeterministically in Init and stay the same over  *)
(* every run of the script against that environment.                      *)
(***************************************************************************)
EXTENDS Integers, Sequences, FiniteSets, TLC

VARIABLES
    script,         \* which of the four scripts is executed
    osKey,          \* OPENAI_API_KEY in the environment the process inherits
    dotenvKey,      \* OPENAI_API_KEY in the .env file read by load_dotenv()
    fileState,      \* state of each spreadsheet file on disk
    clientOutcome,  \* what the library's OpenAI(...) constructor does
    wrapperOutcome, \* what SmartDatalake(...) / SmartDataframe(...) does
    chatOutcome,    \* what the delegate's chat(...) does
    run,            \* number of the current process (1 = first run)
    history,        \* <<status, stdout>> of the runs that ended before
    pc,             \* index of the next statement of the script
    status,         \* "running", "in_chat", "done", "failed"
    environ,        \* os.environ["OPENAI_API_KEY"] of this process
    frames,         \* the module's table variables (df, employees_df, ...)
    apiToken,       \* value os.getenv returned, "unread" before
    llm,            \* token held by the constructed client, "unset" before
    lake,           \* tables held by the wrapper that chat is called on
    asked,          \* questions passed to chat, in order
    chatCalls,      \* number of invocations of chat
    netCalls,       \* number of requests sent to the remote model
    response,       \* the value chat returned
    stdout,         \* text written to standard output
    failedAt,       \* operation that raised, "" when none did
    trace           \* statements started, in order

envVars == <<script, osKey, dotenvKey, fileState, clientOutcome,
             wrapperOutcome, chatOutcome>>
runVars == <<run, history>>
procVars == <<pc, status, environ, frames, apiToken, llm, lake, asked,
              chatCalls, netCalls, response, stdout, failedAt, trace>>
vars == <<envVars, runVars, procVars>>

\* Number of times the same script is started against the same environment.
MaxRuns == 2

Scripts == {"DFInList", "MultiDF", "MultiDFTestExcel", "MultiDfExcelSingleTest"}

None == "None"

----------------------------------------------------------------------------
(* Literal data of the scripts.                                            *)

\* The dict of DFInList.py with the last gdp value lost.
gdp_data_short ==
    << <<"country", <<"United States", "United Kingdom", "France", "Germany",
                      "Italy", "Spain", "Canada", "Australia", "Japan",
                      "China">> >>,
       <<"gdp", <<"19294482071552", "2891615567872", "2411255037952",
                  "3435817336832", "1745433788416", "1181205135360",
                  "1607402389504", "1490967855104", "4380756541440">> >> >>

\* DFInList.py: the dict given to pd.DataFrame.  The gdp values exceed the
\* range of the model checker's integers and are kept as their digits.
gdp_data ==
    << <<"country", <<"United States", "United Kingdom", "France", "Germany",
                      "Italy", "Spain", "Canada", "Australia", "Japan",
                      "China">> >>,
       <<"gdp", <<"19294482071552", "2891615567872", "2411255037952",
                  "3435817336832", "1745433788416", "1181205135360",
                  "1607402389504", "1490967855104", "4380756541440",
                  "14631844184064">> >> >>

employees_data ==
    << <<"EmployeeID", <<1, 2, 3, 4, 5>> >>,
       <<"Name", <<"John", "Emma", "Liam", "Olivia", "William">> >>,
       <<"Department", <<"HR", "Sales", "IT", "Marketing", "Finance">> >> >>

salaries_data ==
    << <<"EmployeeID", <<1, 2, 3, 4, 5>> >>,
       <<"Salary", <<5000, 6000, 4500, 7000, 5500>> >> >>

LiteralNames == {"gdp_data", "employees_data", "salaries_data"}

Literal(name) ==
    CASE name = "gdp_data" -> gdp_data
      [] name = "employees_data" -> employees_data
      [] name = "salaries_data" -> salaries_data

----------------------------------------------------------------------------
(* The statements of each script, in source order.                         *)

Stm(line, op, var, src, args, text) ==
    [line |-> line, op |-> op, var |-> var, src |-> src, args |-> args,
     text |-> text]

Data1 == "resources\\Data1.xlsx"
Data3 == "resources\\Data3.xlsx"
Files == {Data1, Data3}

ProgramDFInList ==
    << Stm(7,  "load_dotenv", "", "", <<>>, ""),
       Stm(9,  "DataFrame", "df", "gdp_data", <<>>, ""),
       Stm(19, "getenv", "", "OPENAI_API_KEY", <<>>, ""),
       Stm(19, "OpenAI", "llm", "", <<>>, ""),
       Stm(21, "wrap", "df", "", <<"df">>, ""),
       Stm(22, "chat", "response", "", <<>>,
           "Which are the countries with GDP greater than 3000000000000?"),
       Stm(23, "print", "", "", <<>>, "") >>

ProgramMultiDF ==
    << Stm(10, "load_dotenv", "", "", <<>>, ""),
       Stm(23, "DataFrame", "employees_df", "employees_data", <<>>, ""),
       Stm(24, "DataFrame", "salaries_df", "salaries_data", <<>>, ""),
       Stm(26, "getenv", "", "OPENAI_API_KEY", <<>>, ""),
       Stm(26, "OpenAI", "llm", "", <<>>, ""),
       Stm(28, "wrap", "df", "", <<"employees_df", "salaries_df">>, ""),
       Stm(29, "chat", "response", "", <<>>, "Who gets paid the most?"),
       Stm(30, "print", "", "", <<>>, "") >>

ProgramMultiDFTestExcel ==
    << Stm(10, "load_dotenv", "", "", <<>>, ""),
       Stm(12, "read_excel", "df1", Data1, <<>>, "Sheet1"),
       Stm(13, "read_excel", "df2", Data3, <<>>, "Sheet1"),
       Stm(19, "getenv", "", "OPENAI_API_KEY", <<>>, ""),
       Stm(19, "OpenAI", "llm", "", <<>>, ""),
       Stm(21, "wrap", "df", "", <<"df2">>, ""),
       Stm(36, "chat", "response", "", <<>>,
           "Please compare each column in first dataframe with all columns in dataframes and show me percentage match for each column? Show in tabular format with columns of dataframes in order completely "),
       Stm(37, "print", "", "", <<>>, "") >>

ProgramMultiDfExcelSingleTest ==
    << Stm(10, "load_dotenv", "", "", <<>>, ""),
       Stm(12, "read_excel", "df1", Data3, <<>>, "Sheet1"),
       Stm(15, "getenv", "", "OPENAI_API_KEY", <<>>, ""),
       Stm(15, "OpenAI", "llm", "", <<>>, ""),
       Stm(17, "wrap", "df", "", <<"df1">>, ""),
       Stm(21, "chat", "response", "", <<>>,
           "Village Column is Moshi and Wakad and Location column is Pune..show me in tabular format"),
       Stm(22, "print", "", "", <<>>, "") >>

\* MultiDFTestExcel.py with the read of Data1.xlsx placed after the question.
ProgramLoadAfterChat(s) ==
    CASE s = "DFInList" -> ProgramDFInList
      [] s = "MultiDF" -> ProgramMultiDF
      [] s = "MultiDFTestExcel" ->
           << Stm(10, "load_dotenv", "", "", <<>>, ""),
              Stm(13, "read_excel", "df2", Data3, <<>>, "Sheet1"),
              Stm(19, "getenv", "", "OPENAI_API_KEY", <<>>, ""),
              Stm(19, "OpenAI", "llm", "", <<>>, ""),
              Stm(21, "wrap", "df", "", <<"df2">>, ""),
              Stm(36, "chat", "response", "", <<>>,
                  ProgramMultiDFTestExcel[7].text),
              Stm(37, "read_excel", "df1", Data1, <<>>, "Sheet1"),
              Stm(38, "print", "", "", <<>>, "") >>
      [] s = "MultiDfExcelSingleTest" -> ProgramMultiDfExcelSingleTest

\* MultiDfExcelSingleTest.py with the client constructed before the
\* spreadsheet is read.
ProgramReadAfterClient(s) ==
    CASE s = "DFInList" -> ProgramDFInList
      [] s = "MultiDF" -> ProgramMultiDF
      [] s = "MultiDFTestExcel" -> ProgramMultiDFTestExcel
      [] s = "MultiDfExcelSingleTest" ->
           << Stm(10, "load_dotenv", "", "", <<>>, ""),
              Stm(12, "getenv", "", "OPENAI_API_KEY", <<>>, ""),
              Stm(12, "OpenAI", "llm", "", <<>>, ""),
              Stm(15, "read_excel", "df1", Data3, <<>>, "Sheet1"),
              Stm(17, "wrap", "df", "", <<"df1">>, ""),
              Stm(21, "chat", "response", "", <<>>,
                  ProgramMultiDfExcelSingleTest[6].text),
              Stm(22, "print", "", "", <<>>, "") >>

\* MultiDfExcelSingleTest.py with the alternate question of line 20 left
\* active beside the one of line 21.
ProgramTwoQuestions(s) ==
    CASE s = "DFInList" -> ProgramDFInList
      [] s = "MultiDF" -> ProgramMultiDF
      [] s = "MultiDFTestExcel" -> ProgramMultiDFTestExcel
      [] s = "MultiDfExcelSingleTest" ->
           << Stm(10, "load_dotenv", "", "", <<>>, ""),
              Stm(12, "read_excel", "df1", Data3, <<>>, "Sheet1"),
              Stm(15, "getenv", "", "OPENAI_API_KEY", <<>>, ""),
              Stm(15, "OpenAI", "llm", "", <<>>, ""),
              Stm(17, "wrap", "df", "", <<"df1">>, ""),
              Stm(20, "chat", "response", "", <<>>,
                  "Village Column is Moshi and Wakad or Location column is Pune..show me in tabular format"),
              Stm(21, "chat", "response", "", <<>>,
                  ProgramMultiDfExcelSingleTest[6].text),
              Stm(22, "print", "", "", <<>>, "") >>

Program(s) ==
    CASE s = "DFInList" -> ProgramDFInList
      [] s = "MultiDF" -> ProgramMultiDF
      [] s = "MultiDFTestExcel" -> ProgramMultiDFTestExcel
      [] s = "MultiDfExcelSingleTest" -> ProgramMultiDfExcelSingleTest

----------------------------------------------------------------------------
(* Values.                                                                 *)

\* A table: where it came from and its ordered, named columns.
Table(origin, columns) == [origin |-> origin, columns |-> columns]
NoTable == Table("", <<>>)

VarNames == {"df", "df1", "df2", "employees_df", "salaries_df"}

\* Contents the Sheet1 of a spreadsheet on disk can have (two samples; the
\* column names are those of the sample output kept in MultiDFTestExcel.py).
SheetColumns(state) ==
    IF state = "sheetA"
    THEN << <<"EmployeeID", <<1, 2>> >>, <<"Salary2", <<10, 20>> >>,
            <<"Village", <<"Moshi", "Wakad">> >>,
            <<"Location", <<"Pune", "Pune">> >> >>
    ELSE << <<"EmployeeID", <<1>> >> >>

FileStates == {"missing", "nosheet", "sheetA", "sheetB"}

\* What the delegate can hand back: a text, a number, or a rendered table.
Result(kind, s, n) == [kind |-> kind, s |-> s, n |-> n]
NoResult == Result("none", "", 0)
\* The first two lines of the answer recorded at the end of MultiDFTestExcel.py.
SampleTableText ==
    "  Column1     Column2  Match Percentage\n0   EmployeeID  EmployeeID        100.000000"

ResultIds == {"William", "7000", "table"}
ResultOf(id) ==
    CASE id = "William" -> Result("str", "William", 0)
      [] id = "7000" -> Result("num", "", 7000)
      [] id = "table" -> Result("table", SampleTableText, 0)

Digit(d) ==
    CASE d = 0 -> "0" [] d = 1 -> "1" [] d = 2 -> "2" [] d = 3 -> "3"
      [] d = 4 -> "4" [] d = 5 -> "5" [] d = 6 -> "6" [] d = 7 -> "7"
      [] d = 8 -> "8" [] d = 9 -> "9"

RECURSIVE NatStr(_)
NatStr(n) == IF n < 10 THEN Digit(n) ELSE NatStr(n \div 10) \o Digit(n % 10)

\* str(value), as print applies it to its argument.
Str(v) ==
    CASE v.kind = "none" -> "None"
      [] v.kind = "num" -> NatStr(v.n)
      [] OTHER -> v.s

----------------------------------------------------------------------------
(* The process.                                                            *)

Cur == Program(script)[pc]

AtOp(op) ==
    /\ status = "running"
    /\ pc <= Len(Program(script))
    /\ Cur.op = op

Begin(s) == Append(trace, s)

\* The exception swallowed, as by "try: ... except: pass" around s.
UncaughtSwallowed(s) ==
    /\ status' = "running"
    /\ failedAt' = s.op
    /\ pc' = pc + 1

\* An exception raised by statement s: no statement of any script is inside
\* a try block, so it propagates to the top level and ends the process.
Uncaught(s) ==
    /\ status' = "failed"
    /\ failedAt' = s.op
    /\ pc' = pc

\* Statement s returned: control moves to the next statement; the process
\* exits normally after the last one.
Completes(s) ==
    /\ pc' = pc + 1
    /\ status' = IF pc = Len(Program(script)) THEN "done" ELSE "running"
    /\ failedAt' = failedAt

Ragged(cols) ==
    \E i, j \in 1..Len(cols) : Len(cols[i][2]) # Len(cols[j][2])

FilesRead(s) ==
    { Program(s)[i].src :
        i \in { k \in 1..Len(Program(s)) : Program(s)[k].op = "read_excel" } }

Init ==
    /\ script \in Scripts
    /\ osKey \in {None, "sk-env"}
    /\ dotenvKey \in {None, "sk-dotenv"}
    /\ fileState \in [Files -> FileStates]
    /\ \A f \in Files \ FilesRead(script) : fileState[f] = "missing"
    /\ clientOutcome \in {"ok", "raise"}
    /\ wrapperOutcome \in {"ok", "raise"}
    /\ chatOutcome \in {"raise_local", "raise_remote"} \cup ResultIds
    /\ run = 1
    /\ history = <<>>
    /\ pc = 1
    /\ status = "running"
    /\ environ = osKey
    /\ frames = [v \in VarNames |-> NoTable]
    /\ apiToken = "unread"
    /\ llm = "unset"
    /\ lake = <<>>
    /\ asked = <<>>
    /\ chatCalls = 0
    /\ netCalls = 0
    /\ response = NoResult
    /\ stdout = ""
    /\ failedAt = ""
    /\ trace = <<>>

\* load_dotenv(): copies the key of the .env file into os.environ unless the
\* variable is already set; a missing file or key changes nothing.
LoadDotenv ==
    /\ AtOp("load_dotenv")
    /\ environ' = IF environ = None THEN dotenvKey ELSE environ
    /\ trace' = Begin(Cur)
    /\ Completes(Cur)
    /\ UNCHANGED <<frames, apiToken, llm, lake, asked, chatCalls, netCalls,
                   response, stdout>>
    /\ UNCHANGED <<envVars, runVars>>

\* x = pd.DataFrame(<literal dict>): columns of unequal length raise.
DataFrame ==
    /\ AtOp("DataFrame")
    /\ trace' = Begin(Cur)
    /\ IF Ragged(Literal(Cur.src))
       THEN Uncaught(Cur) /\ frames' = frames
       ELSE /\ frames' = [frames EXCEPT
                            ![Cur.var] = Table(Cur.src, Literal(Cur.src))]
            /\ Completes(Cur)
    /\ UNCHANGED <<environ, apiToken, llm, lake, asked, chatCalls, netCalls,
                   response, stdout>>
    /\ UNCHANGED <<envVars, runVars>>

\* x = pd.read_excel(path, sheet_name="Sheet1"): a missing file or sheet
\* raises, otherwise the sheet's contents become the table.
ReadExcel ==
    /\ AtOp("read_excel")
    /\ trace' = Begin(Cur)
    /\ IF fileState[Cur.src] \in {"missing", "nosheet"}
       THEN Uncaught(Cur) /\ frames' = frames
       ELSE /\ frames' = [frames EXCEPT
                ![Cur.var] = Table(Cur.src, SheetColumns(fileState[Cur.src]))]
            /\ Completes(Cur)
    /\ UNCHANGED <<environ, apiToken, llm, lake, asked, chatCalls, netCalls,
                   response, stdout>>
    /\ UNCHANGED <<envVars, runVars>>

\* The key asked for on the terminal when the environment has none: the
\* statement waits for input that never comes.
GetEnvPrompts ==
    /\ AtOp("getenv")
    /\ environ # None
    /\ apiToken' = environ
    /\ trace' = Begin(Cur)
    /\ Completes(Cur)
    /\ UNCHANGED <<environ, frames, llm, lake, asked, chatCalls, netCalls,
                   response, stdout>>
    /\ UNCHANGED <<envVars, runVars>>

\* os.getenv("OPENAI_API_KEY"): the argument of the client constructor.
GetEnv ==
    /\ AtOp("getenv")
    /\ apiToken' = environ
    /\ trace' = Begin(Cur)
    /\ Completes(Cur)
    /\ UNCHANGED <<environ, frames, llm, lake, asked, chatCalls, netCalls,
                   response, stdout>>
    /\ UNCHANGED <<envVars, runVars>>

\* llm = OpenAI(api_token=...): the library decides whether it raises.
ConstructClient ==
    /\ AtOp("OpenAI")
    /\ trace' = Begin(Cur)
    /\ IF clientOutcome = "raise"
       THEN Uncaught(Cur) /\ llm' = llm
       ELSE llm' = apiToken /\ Completes(Cur)
    /\ UNCHANGED <<environ, frames, apiToken, lake, asked, chatCalls,
                   netCalls, response, stdout>>
    /\ UNCHANGED <<envVars, runVars>>

\* df = SmartDatalake([...], config={"llm": llm}) / SmartDataframe(df, ...):
\* the wrapper holds the tables named in the argument list, in that order.
\* (DFInList.py rebinds df to the wrapper; frames keeps the table the loader
\* produced and lake records what the wrapper was given.)
ConstructWrapper ==
    /\ AtOp("wrap")
    /\ trace' = Begin(Cur)
    /\ IF wrapperOutcome = "raise"
       THEN Uncaught(Cur) /\ lake' = lake
       ELSE /\ lake' = [i \in 1..Len(Cur.args) |-> frames[Cur.args[i]]]
            /\ Completes(Cur)
    /\ UNCHANGED <<environ, frames, apiToken, llm, asked, chatCalls,
                   netCalls, response, stdout>>
    /\ UNCHANGED <<envVars, runVars>>

\* response = df.chat(question), first half: the call is made; the delegate
\* either raises before it contacts the remote model or sends the request
\* and blocks on the round trip.
ChatCall ==
    /\ AtOp("chat")
    /\ trace' = Begin(Cur)
    /\ chatCalls' = chatCalls + 1
    /\ asked' = Append(asked, Cur.text)
    /\ IF chatOutcome = "raise_local"
       THEN Uncaught(Cur) /\ netCalls' = netCalls
       ELSE /\ netCalls' = netCalls + 1
            /\ status' = "in_chat"
            /\ pc' = pc
            /\ failedAt' = failedAt
    /\ UNCHANGED <<environ, frames, apiToken, llm, lake, response, stdout>>
    /\ UNCHANGED <<envVars, runVars>>

\* response = df.chat(question), second half: the round trip ends with an
\* answer, which is bound to response, or with an error.
ChatReturn ==
    /\ status = "in_chat"
    /\ IF chatOutcome = "raise_remote"
       THEN Uncaught(Cur) /\ response' = response
       ELSE response' = ResultOf(chatOutcome) /\ Completes(Cur)
    /\ UNCHANGED <<environ, frames, apiToken, llm, lake, asked, chatCalls,
                   netCalls, stdout, trace>>
    /\ UNCHANGED <<envVars, runVars>>

\* print(response, end=""): the line break left out.
PrintResponseNoNewline ==
    /\ AtOp("print")
    /\ trace' = Begin(Cur)
    /\ stdout' = stdout \o Str(response)
    /\ Completes(Cur)
    /\ UNCHANGED <<environ, frames, apiToken, llm, lake, asked, chatCalls,
                   netCalls, response>>
    /\ UNCHANGED <<envVars, runVars>>

\* print(response): str(response) and a line break go to standard output.
PrintResponse ==
    /\ AtOp("print")
    /\ trace' = Begin(Cur)
    /\ stdout' = stdout \o Str(response) \o "\n"
    /\ Completes(Cur)
    /\ UNCHANGED <<environ, frames, apiToken, llm, lake, asked, chatCalls,
                   netCalls, response>>
    /\ UNCHANGED <<envVars, runVars>>

Terminated == status \in {"done", "failed"}

\* Output kept from the run before, as with a log the script appends to.
RerunKeepsOutput ==
    /\ status \in {"done", "failed"}
    /\ run < MaxRuns
    /\ run' = run + 1
    /\ history' = Append(history, [status |-> status, stdout |-> stdout])
    /\ pc' = 1
    /\ status' = "running"
    /\ environ' = osKey
    /\ frames' = [v \in VarNames |-> NoTable]
    /\ apiToken' = "unread"
    /\ llm' = "unset"
    /\ lake' = <<>>
    /\ asked' = <<>>
    /\ chatCalls' = 0
    /\ netCalls' = 0
    /\ response' = NoResult
    /\ stdout' = stdout
    /\ failedAt' = ""
    /\ trace' = <<>>
    /\ UNCHANGED envVars

\* The script is started again: a new process, with nothing of the ended
\* one but the environment outside it.
Rerun ==
    /\ Terminated
    /\ run < MaxRuns
    /\ run' = run + 1
    /\ history' = Append(history, [status |-> status, stdout |-> stdout])
    /\ pc' = 1
    /\ status' = "running"
    /\ environ' = osKey
    /\ frames' = [v \in VarNames |-> NoTable]
    /\ apiToken' = "unread"
    /\ llm' = "unset"
    /\ lake' = <<>>
    /\ asked' = <<>>
    /\ chatCalls' = 0
    /\ netCalls' = 0
    /\ response' = NoResult
    /\ stdout' = ""
    /\ failedAt' = ""
    /\ trace' = <<>>
    /\ UNCHANGED envVars

\* The statements the interpreter executes by itself, one after the other.
Step ==
    \/ LoadDotenv
    \/ DataFrame
    \/ ReadExcel
    \/ GetEnv
    \/ ConstructClient
    \/ ConstructWrapper
    \/ ChatCall
    \/ PrintResponse

Next == Step \/ ChatReturn \/ Rerun

Spec == Init /\ [][Next]_vars

\* The interpreter never pauses between statements.  Nothing makes the
\* remote model answer: chat has no timeout.
LiveSpec == Init /\ [][Next]_vars /\ WF_vars(Step)

----------------------------------------------------------------------------
(* Properties.                                                             *)

LoadOps == {"DataFrame", "read_excel"}
ExcelScripts == {"MultiDFTestExcel", "MultiDfExcelSingleTest"}

\* Number of entries with an operation of ops among the first n of the trace.
Started(ops, n) == Cardinality({ k \in 1..n : trace[k].op \in ops })

\* Tables the script loads: DFInList 1, MultiDF 2, MultiDFTestExcel 2,
\* MultiDfExcelSingleTest 1.
LoadsOf(s) == IF s \in {"MultiDF", "MultiDFTestExcel"} THEN 2 ELSE 1

\* Tables bound by the loader so far.
Loaded == { frames[v] : v \in { w \in VarNames : frames[w] # NoTable } }

\* Tables the wrapper was given.
Forwarded == { lake[i] : i \in 1..Len(lake) }

\* C1: the steps run in the order Loader, Query Delegate, Presenter: chat
\* starts only after every table load of the script has completed, print
\* starts only after chat has returned a result, and no statement is started
\* out of source order or a second time.
C1_LoaderDelegatePresenter ==
    /\ \A i, j \in 1..Len(trace) :
          i < j => trace[i].line <= trace[j].line /\ trace[i] # trace[j]
    /\ \A i \in 1..Len(trace) :
          /\ trace[i].op = "chat" =>
                /\ Started(LoadOps, i - 1) = LoadsOf(script)
                /\ Cardinality(Loaded) = LoadsOf(script)
                /\ Started(LoadOps, Len(trace)) = LoadsOf(script)
          /\ trace[i].op = "print" =>
                /\ Started({"chat"}, i - 1) = 1
                /\ response # NoResult
                /\ status # "in_chat"

C1_Witness ==
    /\ script = "MultiDFTestExcel"
    /\ status = "done"
    /\ Len(trace) = 8

\* The statement s raised in the current process, given the environment.
Raised(s) ==
    \/ s.op = "read_excel" /\ fileState[s.src] \in {"missing", "nosheet"}
    \/ s.op = "OpenAI" /\ clientOutcome = "raise"
    \/ s.op = "wrap" /\ wrapperOutcome = "raise"
    \/ s.op = "chat" /\ chatOutcome = "raise_local"
    \/ s.op = "chat" /\ chatOutcome = "raise_remote" /\ status # "in_chat"

\* C2: an error raised while loading a table, constructing the client or
\* the wrapper, or in the chat call is terminal: the process is failed, the
\* failing statement is the last one started and was started once, no chat
\* call follows a load or construction failure, nothing is on standard
\* output, and a failed process takes no further step.
C2_FailureIsTerminal ==
    /\ [](\A i \in 1..Len(trace) :
            Raised(trace[i]) =>
               /\ status = "failed"
               /\ failedAt = trace[i].op
               /\ i = Len(trace)
               /\ \A j \in 1..Len(trace) : j # i => trace[j] # trace[i]
               /\ stdout = ""
               /\ trace[i].op # "chat" => chatCalls = 0 /\ netCalls = 0)
    /\ [](failedAt # "" => status = "failed")
    /\ [][status = "failed" /\ run' = run => UNCHANGED procVars]_vars

C2_Witness ==
    /\ status = "failed"
    /\ failedAt = "wrap"
    /\ Len(trace) > 1

\* C4: the tables forwarded to the answering service are exactly the tables
\* the loader produced in this execution.
C4_ForwardedAreLoaded ==
    chatCalls > 0 => Forwarded = Loaded

\* C5: chat is invoked at most once in any execution, exactly once in an
\* execution that reaches the presenter, with one question and one request.
C5_OneQuestion ==
    /\ chatCalls <= 1
    /\ netCalls <= chatCalls
    /\ Len(asked) = chatCalls
    /\ Started({"chat"}, Len(trace)) = chatCalls
    /\ (status = "done" \/ Started({"print"}, Len(trace)) > 0) =>
          chatCalls = 1

C5_Witness ==
    /\ status = "done"
    /\ chatCalls = 1
    /\ Started({"print"}, Len(trace)) = 1

\* C6: with a delegate that returns the fixed value v, standard output is the
\* text of v followed by one line break, and nothing is written before the
\* presenter runs or by an execution that fails.
C6_PrintsResultAndNewline ==
    /\ status = "done" =>
          /\ chatOutcome = "William" => stdout = "William\n"
          /\ chatOutcome = "7000" => stdout = "7000\n"
          /\ chatOutcome = "table" =>
                stdout = SampleTableText \o "\n"
    /\ status # "done" => stdout = ""

C6_Witness ==
    /\ status = "done"
    /\ chatOutcome = "7000"
    /\ response = ResultOf("7000")

ColumnLengths(t) == [i \in 1..Len(t.columns) |-> Len(t.columns[i][2])]

ExpectedLengths(origin) ==
    CASE origin = "gdp_data" -> <<10, 10>>
      [] origin = "employees_data" -> <<5, 5, 5>>
      [] origin = "salaries_data" -> <<5, 5>>

\* C8: every literal table has columns of one length (10, 10 for country and
\* gdp; 5, 5, 5 for employees; 5, 5 for salaries) when it is constructed and
\* when it is handed to the delegate, and its construction never fails.
C8_LiteralColumnsEqualLength ==
    /\ failedAt # "DataFrame"
    /\ \A i \in 1..Len(trace) :
          (trace[i].op = "DataFrame" /\ i < Len(trace)) =>
             frames[trace[i].var].origin = trace[i].src
    /\ \A v \in VarNames :
          frames[v].origin \in LiteralNames =>
             /\ ~Ragged(frames[v].columns)
             /\ ColumnLengths(frames[v]) = ExpectedLengths(frames[v].origin)
    /\ \A i \in 1..Len(lake) :
          lake[i].origin \in LiteralNames =>
             /\ ~Ragged(lake[i].columns)
             /\ ColumnLengths(lake[i]) = ExpectedLengths(lake[i].origin)

C8_Witness ==
    /\ chatCalls = 1
    /\ Len(lake) = 2
    /\ lake[1].origin = "employees_data"
    /\ lake[2].origin = "salaries_data"

FileBroken == \E f \in FilesRead(script) : fileState[f] \in {"missing", "nosheet"}

\* C9: in the two spreadsheet scripts every read_excel call precedes the
\* credential read (os.getenv) and the client construction; with a file or
\* sheet missing the execution fails at read_excel before the credential is
\* read, before a client or wrapper exists and before any network call,
\* whether or not the credential is present.
C9_FileFailureComesFirst ==
    script \in ExcelScripts =>
       /\ \A i \in 1..Len(trace) :
             trace[i].op \in {"getenv", "OpenAI", "wrap", "chat"} =>
                Started({"read_excel"}, i - 1) = LoadsOf(script)
       /\ FileBroken =>
             /\ apiToken = "unread"
             /\ llm = "unset"
             /\ lake = <<>>
             /\ chatCalls = 0
             /\ netCalls = 0
             /\ Terminated => status = "failed" /\ failedAt = "read_excel"

C9_Witness ==
    /\ script = "MultiDFTestExcel"
    /\ fileState[Data1] = "sheetA"
    /\ fileState[Data3] = "missing"
    /\ osKey = None
    /\ dotenvKey = None
    /\ status = "failed"
    /\ failedAt = "read_excel"

\* C10: every execution reaches 'result printed' or 'failed' unless it stays
\* in the network round trip of chat forever; every other statement that is
\* reached can be executed at once.
C10_TerminatesUnlessChatBlocks ==
    /\ [](status = "running" => ENABLED <<Step>>_vars)
    /\ (~Terminated ~> Terminated) \/ <>[](status = "in_chat")

C10_Witness ==
    /\ status = "done"
    /\ chatCalls = 1
    /\ run = 1

====
